---- MODULE Spec2Model ----
(***************************************************************************)
(* Model of src/meta.ts: getTags and writeImageTags, the batch read /      *)
(* diff / write of the creator, license and rights tags of image files     *)
(* through the exiftool collaborator.                                      *)
(*                                                                         *)
(* A path is a sequence of components, <<"x", "a.jpg">> for x/a.jpg; a     *)
(* base name is a path of one component.  A JavaScript object is a         *)
(* function on its own keys; an object whose key order matters             *)
(* (linkedFiles) is the sequence of its [key, value] pairs in insertion    *)
(* order.  A promise is "pending", "resolved" or "rejected".               *)
(***************************************************************************)
EXTENDS Integers, Sequences, FiniteSets, TLC

\* Longest input list of one call.
MaxFiles == 2

\* The JavaScript value undefined (distinct from every tag string).
Undefined == "#undefined"

\* The files on disk that a call may name.  x/a.jpg and y/a.jpg share a base
\* name; the base names 7 and 10 are integer-like property keys.
Paths == { <<"x", "a.jpg">>, <<"y", "a.jpg">>, <<"x", "b.jpg">>, <<"x", "10">>,
           <<"x", "7">> }

\* Base names that are canonical array indexes, with their numeric value.
ArrayIndexValue == [n \in {"7", "10"} |-> IF n = "7" THEN 7 ELSE 10]

\* The tags stored in each file when the call starts.
InitialDisk ==
  [p \in Paths |->
     CASE p = <<"x", "a.jpg">> -> [Creator |-> "Alice", License |-> "CC"]
       [] p = <<"y", "a.jpg">> -> [Creator |-> "Bob", License |-> "CC", Rights |-> "R"]
       [] p = <<"x", "b.jpg">> -> [Creator |-> "Alice", Rights |-> "R"]
       [] p = <<"x", "10">>    -> [Creator |-> "Bob"]
       [] p = <<"x", "7">>     -> [License |-> "CC"]]

\* linkedFileType fields written by writeImageTags, in the order of its blocks.
FieldOrder == <<"creator", "license", "rights">>
Fields == {FieldOrder[i] : i \in DOMAIN FieldOrder}

\* Values a caller passes for each field of newTags.
DesiredValues(f) ==
  CASE f = "creator" -> {Undefined, "", "Alice"}
    [] f = "license" -> {"CC"}
    [] OTHER         -> {"R"}

\* The newTags objects a caller passes: any subset of the fields as keys.
NewTagChoices ==
  UNION { { t \in [S -> UNION {DesiredValues(f) : f \in Fields}] :
              \A f \in S : t[f] \in DesiredValues(f) } : S \in SUBSET Fields }

\* The input lists a caller passes, duplicates and the empty list included.
FileLists == UNION { [1..n -> Paths] : n \in 0..MaxFiles }

----------------------------------------------------------------------------
\* JavaScript helpers

\* obj[k] of a plain object: undefined when k is not an own key.
Get(obj, k) == IF k \in DOMAIN obj THEN obj[k] ELSE Undefined

\* obj[k] = v
Put(obj, k, v) == [x \in (DOMAIN obj) \cup {k} |-> IF x = k THEN v ELSE obj[x]]

\* `${v}` in a template literal.
ToStr(v) == IF v = Undefined THEN "undefined" ELSE v

\* A comparison of presence only: whether just one of the two is undefined.
LooseNe_presence(a, b) == (a = Undefined) # (b = Undefined)

\* a != b on strings and undefined.
LooseNe(a, b) == a # b

\* path.basename(p): the last component, directories discarded.
Basename(p) == SubSeq(p, Len(p), Len(p))

\* parseJSON(JSON.stringify(rawTags)): own keys whose value is undefined are
\* dropped by JSON.stringify; strings survive unchanged.
JSONRoundTrip(raw) ==
  [k \in {x \in DOMAIN raw : x = "SourceFile" \/ raw[x] # Undefined} |-> raw[k]]

\* {} : the object without own keys.
EmptyObject == [x \in {} |-> Undefined]

\* Promise.all over promises in the given states, itself in state cur: it
\* settles once, rejects as soon as one promise is rejected and fulfils when
\* every promise is resolved (at once for an empty list).
PromiseAll(cur, states) ==
  IF cur # "pending" THEN cur
  ELSE IF \E i \in DOMAIN states : states[i] = "rejected" THEN "rejected"
  ELSE IF \A i \in DOMAIN states : states[i] = "resolved" THEN "fulfilled"
  ELSE "pending"

----------------------------------------------------------------------------
\* The external tool

\* exiftool.readRaw(file, ...): the tags stored in the file, with SourceFile.
ReadRaw(d, file) == Put(d[file], "SourceFile", file)

\* Tag written by each key of a write payload.
XmpTag == [x \in {"XMP:Creator", "XMP:License", "XMP:Rights"} |->
             CASE x = "XMP:Creator" -> "Creator"
               [] x = "XMP:License" -> "License"
               [] OTHER             -> "Rights"]

\* exiftool.write(file, tags, ['-overwrite_original']) succeeding: only the
\* tags of the payload change; an empty or undefined value removes the tag.
ApplyWrite(d, req) ==
  LET old     == d[req.file]
      set     == {XmpTag[x] : x \in {y \in DOMAIN req.tags : req.tags[y] \notin {Undefined, ""}}}
      removed == {XmpTag[x] : x \in {y \in DOMAIN req.tags : req.tags[y] \in {Undefined, ""}}}
      value(t) == req.tags[CHOOSE x \in DOMAIN req.tags : XmpTag[x] = t]
  IN  [d EXCEPT ![req.file] =
         [t \in ((DOMAIN old) \ removed) \cup set |->
            IF t \in set THEN value(t) ELSE old[t]]]

----------------------------------------------------------------------------
\* getTags

\* A linkedFileType that takes the creator from tags.creator, a key the tool
\* never reports.
LinkedFile_lowercase(raw) ==
  LET tags == JSONRoundTrip(raw)
      id   == Basename(tags.SourceFile)
  IN  [fileName   |-> id,
       fileType   |-> "image",
       sourceFile |-> tags.SourceFile,
       creator    |-> Get(tags, "creator"),
       license    |-> Get(tags, "License"),
       rights     |-> Get(tags, "Rights")]

\* The linkedFileType built from one raw tag payload.
LinkedFile(raw) ==
  LET tags == JSONRoundTrip(raw)
      id   == Basename(tags.SourceFile)
  IN  [fileName   |-> id,
       fileType   |-> "image",
       sourceFile |-> tags.SourceFile,
       creator    |-> Get(tags, "Creator"),
       license    |-> Get(tags, "License"),
       rights     |-> Get(tags, "Rights")]

\* An assignment guarded by if (!(id in linkedFiles)): the first file of a
\* base name stays.
AssignEntry_firstWins(obj, id, val) ==
  IF \E i \in DOMAIN obj : obj[i].key = id
  THEN obj
  ELSE Append(obj, [key |-> id, value |-> val])

\* A list in place of the keyed object: linkedFiles.push(val) adds one entry
\* per payload.
AssignEntry_push(obj, id, val) == Append(obj, [key |-> id, value |-> val])

\* linkedFiles[id] = val : an existing key keeps its place and takes the new
\* value, a new key is added last.
AssignEntry(obj, id, val) ==
  IF \E i \in DOMAIN obj : obj[i].key = id
  THEN [i \in DOMAIN obj |-> IF obj[i].key = id THEN [key |-> id, value |-> val] ELSE obj[i]]
  ELSE Append(obj, [key |-> id, value |-> val])

\* allTags.forEach(...) over the first n payloads, in the order of allTags.
RECURSIVE BuildLinkedFiles(_, _)
BuildLinkedFiles(allTags, n) ==
  IF n = 0 THEN <<>>
  ELSE LET lf == LinkedFile(allTags[n])
       IN  AssignEntry(BuildLinkedFiles(allTags, n - 1), lf.fileName, lf)

----------------------------------------------------------------------------
\* writeImageTags

\* Whether a property key is a canonical array index.
IsArrayIndex(id) == id[1] \in DOMAIN ArrayIndexValue

\* The entries among es with the smallest array index first.
RECURSIVE SortByIndex(_)
SortByIndex(es) ==
  IF es = <<>> THEN <<>>
  ELSE LET m == CHOOSE i \in DOMAIN es :
                  \A j \in DOMAIN es :
                    ArrayIndexValue[es[i].key[1]] <= ArrayIndexValue[es[j].key[1]]
       IN  <<es[m]>> \o SortByIndex(SubSeq(es, 1, m - 1) \o SubSeq(es, m + 1, Len(es)))

\* Object.entries(fileTags): array-index keys in ascending order, then the
\* other keys in insertion order.
ObjectEntries(obj) ==
  SortByIndex(SelectSeq(obj, LAMBDA e : IsArrayIndex(e.key)))
    \o SelectSeq(obj, LAMBDA e : ~IsArrayIndex(e.key))

\* External tag name of each field.
TagName == [f \in Fields |->
              CASE f = "creator" -> "XMP:Creator"
                [] f = "license" -> "XMP:License"
                [] OTHER         -> "XMP:Rights"]

\* `WARNING: Overwriting ${base} existing ${field}: ${current} with ${desired}`
Warning(currentTags, f, nt) ==
  [file     |-> Basename(currentTags.fileName),
   field    |-> f,
   existing |-> ToStr(currentTags[f]),
   with     |-> ToStr(nt[f])]

\* A block that stages the desired value only when it differs.
FieldBlock_onlyChanged(st, currentTags, f, nt) ==
  IF f \in DOMAIN nt /\ LooseNe(currentTags[f], nt[f])
  THEN [modified   |-> Append(st.modified, Warning(currentTags, f, nt)),
        tagToWrite |-> Put(st.tagToWrite, TagName[f], nt[f])]
  ELSE st

\* A block without the hasOwnProperty guard on the assignment: a field that
\* is not a key of newTags is staged with the value undefined.
FieldBlock_unguarded(st, currentTags, f, nt) ==
  [modified   |-> IF f \in DOMAIN nt /\ LooseNe(currentTags[f], nt[f])
                  THEN Append(st.modified, Warning(currentTags, f, nt))
                  ELSE st.modified,
   tagToWrite |-> Put(st.tagToWrite, TagName[f], Get(nt, f))]

\* One "Update ... info" block: st is [modified, tagToWrite].
FieldBlock(st, currentTags, f, nt) ==
  IF f \in DOMAIN nt
  THEN [modified   |-> IF LooseNe(currentTags[f], nt[f])
                       THEN Append(st.modified, Warning(currentTags, f, nt))
                       ELSE st.modified,
        tagToWrite |-> Put(st.tagToWrite, TagName[f], nt[f])]
  ELSE st

\* The three blocks in order, from field k on.
RECURSIVE FieldBlocks(_, _, _, _)
FieldBlocks(st, currentTags, k, nt) ==
  IF k > Len(FieldOrder) THEN st
  ELSE FieldBlocks(FieldBlock(st, currentTags, FieldOrder[k], nt), currentTags, k + 1, nt)

\* A test of the object instead of its keys: if (tagToWrite) is always true.
HasContent_truthy(tagToWrite) == TRUE

\* Whether the payload is enqueued: Object.keys(tagToWrite).length != 0.
HasContent(tagToWrite) == Cardinality(DOMAIN tagToWrite) # 0

\* One iteration of the for loop: st is [modified, promises].
LoopBody(st, currentTags, nt) ==
  LET b == FieldBlocks([modified |-> st.modified, tagToWrite |-> EmptyObject],
                       currentTags, 1, nt)
  IN  [modified |-> b.modified,
       promises |-> IF HasContent(b.tagToWrite)
                    THEN Append(st.promises,
                                [file |-> currentTags.sourceFile, tags |-> b.tagToWrite])
                    ELSE st.promises]

\* The for loop over the first n entries.
RECURSIVE Loop(_, _, _)
Loop(entries, n, nt) ==
  IF n = 0 THEN [modified |-> <<>>, promises |-> <<>>]
  ELSE LoopBody(Loop(entries, n - 1, nt), entries[n].value, nt)

----------------------------------------------------------------------------
VARIABLES
  pc,           \* position of the writeImageTags call
  files,        \* argument files
  newTags,      \* argument newTags
  disk,         \* tags stored in each file (the external tool's view)
  reads,        \* getTags promises: state of each exiftool.readRaw
  rawTags,      \* value each readRaw resolved with
  resolveOrder, \* indexes of the reads in the order they resolved
  readAll,      \* state of Promise.all(promises) in getTags
  readErr,      \* index of the read whose rejection rejected readAll
  getTagsState, \* outcome of the getTags call
  linkedFiles,  \* the object getTags returns
  writes,       \* writeImageTags promises: the exiftool.write requests
  writeState,   \* state of each exiftool.write
  writeAll,     \* state of Promise.all(promises) in writeImageTags
  writeErr,     \* index of the write whose rejection rejected writeAll
  modified,     \* the warnings accumulated by the diff
  errLog,       \* console.error output
  outcome,      \* "none", "returned" or "rejected"
  result,       \* value returned, or the error the call failed with
  previous      \* what the earlier call of the same arguments returned and issued

vars == <<pc, files, newTags, disk, reads, rawTags, resolveOrder, readAll,
          readErr, getTagsState, linkedFiles, writes, writeState, writeAll, writeErr,
          modified, errLog, outcome, result, previous>>

Init ==
  /\ pc = "idle"
  /\ files = <<>>
  /\ newTags = EmptyObject
  /\ disk = InitialDisk
  /\ reads = <<>>
  /\ rawTags = <<>>
  /\ resolveOrder = <<>>
  /\ readAll = "none"
  /\ readErr = 0
  /\ getTagsState = "none"
  /\ linkedFiles = <<>>
  /\ writes = <<>>
  /\ writeState = <<>>
  /\ writeAll = "none"
  /\ writeErr = 0
  /\ modified = <<>>
  /\ errLog = <<>>
  /\ outcome = "none"
  /\ result = <<>>
  /\ previous = <<>>

----------------------------------------------------------------------------
\* Actions

\* writeImageTags(fs, nt) is called: it calls getTags(fs), which issues one
\* readRaw per element of fs and awaits Promise.all of them.
writeImageTags_call(fs, nt) ==
  /\ pc = "idle"
  /\ files' = fs
  /\ newTags' = nt
  /\ reads' = [i \in DOMAIN fs |-> "pending"]
  /\ rawTags' = [i \in DOMAIN fs |-> EmptyObject]
  /\ readAll' = PromiseAll("pending", reads')
  /\ pc' = "awaitReads"
  /\ UNCHANGED <<disk, resolveOrder, readErr, getTagsState, linkedFiles, writes,
                 writeState, writeAll, writeErr, modified, errLog, outcome, result>>
  /\ UNCHANGED previous

\* The external tool answers read i with the tags of the file.
ReadResolve(i) ==
  /\ i \in DOMAIN reads
  /\ reads[i] = "pending"
  /\ reads' = [reads EXCEPT ![i] = "resolved"]
  /\ rawTags' = [rawTags EXCEPT ![i] = ReadRaw(disk, files[i])]
  /\ resolveOrder' = Append(resolveOrder, i)
  /\ readAll' = PromiseAll(readAll, reads')
  /\ UNCHANGED <<pc, files, newTags, disk, readErr, getTagsState, linkedFiles,
                 writes, writeState, writeAll, writeErr, modified, errLog,
                 outcome, result>>
  /\ UNCHANGED previous

\* The external tool fails read i.
ReadReject(i) ==
  /\ i \in DOMAIN reads
  /\ reads[i] = "pending"
  /\ reads' = [reads EXCEPT ![i] = "rejected"]
  /\ readAll' = PromiseAll(readAll, reads')
  /\ readErr' = IF readAll = "pending" THEN i ELSE readErr
  /\ UNCHANGED <<pc, files, newTags, disk, rawTags, resolveOrder, getTagsState,
                 linkedFiles, writes, writeState, writeAll, writeErr, modified,
                 errLog, outcome, result>>
  /\ UNCHANGED previous

\* The raw payloads of the reads among the first n that have resolved.
RECURSIVE ResolvedTags(_)
ResolvedTags(n) ==
  IF n = 0 THEN <<>>
  ELSE IF reads[n] = "resolved" THEN Append(ResolvedTags(n - 1), rawTags[n])
  ELSE ResolvedTags(n - 1)

\* getTags with Promise.race in place of Promise.all: it goes on as soon as
\* one read has resolved, with the payloads at hand.
getTags_resume_race ==
  /\ pc = "awaitReads"
  /\ \/ readAll = "fulfilled"
     \/ \E i \in DOMAIN reads : reads[i] = "resolved"
  /\ linkedFiles' = BuildLinkedFiles(ResolvedTags(Len(reads)), Len(ResolvedTags(Len(reads))))
  /\ getTagsState' = "fulfilled"
  /\ pc' = "gotTags"
  /\ UNCHANGED <<files, newTags, disk, reads, rawTags, resolveOrder, readAll,
                 readErr, writes, writeState, writeAll, writeErr, modified,
                 errLog, outcome, result>>
  /\ UNCHANGED previous

\* getTags with each read's failure caught on its own: a rejected read is
\* left out and the partial mapping is returned.
getTags_resume_partial ==
  /\ pc = "awaitReads"
  /\ readAll # "pending"
  /\ linkedFiles' = BuildLinkedFiles(ResolvedTags(Len(reads)), Len(ResolvedTags(Len(reads))))
  /\ getTagsState' = "fulfilled"
  /\ pc' = "gotTags"
  /\ UNCHANGED <<files, newTags, disk, reads, rawTags, resolveOrder, readAll,
                 readErr, writes, writeState, writeAll, writeErr, modified,
                 errLog, outcome, result>>
  /\ UNCHANGED previous

\* getTags that collects each payload as its read resolves: the mapping is
\* filled in the order of resolution.
getTags_resume_resolveOrder ==
  /\ pc = "awaitReads"
  /\ readAll # "pending"
  /\ IF readAll = "fulfilled"
     THEN /\ linkedFiles' = BuildLinkedFiles([k \in DOMAIN resolveOrder |-> rawTags[resolveOrder[k]]],
                                             Len(resolveOrder))
          /\ getTagsState' = "fulfilled"
     ELSE /\ getTagsState' = "rejected"
          /\ UNCHANGED linkedFiles
  /\ pc' = "gotTags"
  /\ UNCHANGED <<files, newTags, disk, reads, rawTags, resolveOrder, readAll,
                 readErr, writes, writeState, writeAll, writeErr, modified,
                 errLog, outcome, result>>
  /\ UNCHANGED previous

\* getTags resumes after await Promise.all(promises): it builds and returns
\* linkedFiles, or fails with the rejection of Promise.all.
getTags_resume ==
  /\ pc = "awaitReads"
  /\ readAll # "pending"
  /\ IF readAll = "fulfilled"
     THEN /\ linkedFiles' = BuildLinkedFiles(rawTags, Len(rawTags))
          /\ getTagsState' = "fulfilled"
     ELSE /\ getTagsState' = "rejected"
          /\ UNCHANGED linkedFiles
  /\ pc' = "gotTags"
  /\ UNCHANGED <<files, newTags, disk, reads, rawTags, resolveOrder, readAll,
                 readErr, writes, writeState, writeAll, writeErr, modified,
                 errLog, outcome, result>>
  /\ UNCHANGED previous

\* writeImageTags that awaits each write inside the loop: only the first
\* write is issued before an outcome is observed.
writeImageTags_resume_sequential ==
  /\ pc = "gotTags"
  /\ IF getTagsState = "rejected"
     THEN /\ pc' = "done"
          /\ outcome' = "rejected"
          /\ result' = <<"readError", readErr>>
          /\ UNCHANGED <<writes, writeState, writeAll, modified>>
     ELSE LET entries == ObjectEntries(linkedFiles)
              l       == Loop(entries, Len(entries), newTags)
              first   == SubSeq(l.promises, 1, IF l.promises = <<>> THEN 0 ELSE 1)
          IN  /\ modified' = l.modified
              /\ writes' = first
              /\ writeState' = [j \in DOMAIN first |-> "pending"]
              /\ writeAll' = PromiseAll("pending", writeState')
              /\ pc' = "awaitWrites"
              /\ UNCHANGED <<outcome, result>>
  /\ UNCHANGED <<files, newTags, disk, reads, rawTags, resolveOrder, readAll,
                 readErr, getTagsState, linkedFiles, writeErr, errLog>>
  /\ UNCHANGED previous

\* writeImageTags resumes after await getTags(files): a failure propagates to
\* the caller; otherwise the loop runs, the writes are issued and the call
\* awaits Promise.all of them.
writeImageTags_resume ==
  /\ pc = "gotTags"
  /\ IF getTagsState = "rejected"
     THEN /\ pc' = "done"
          /\ outcome' = "rejected"
          /\ result' = <<"readError", readErr>>
          /\ UNCHANGED <<writes, writeState, writeAll, modified>>
     ELSE LET entries == ObjectEntries(linkedFiles)
              l       == Loop(entries, Len(entries), newTags)
          IN  /\ modified' = l.modified
              /\ writes' = l.promises
              /\ writeState' = [j \in DOMAIN l.promises |-> "pending"]
              /\ writeAll' = PromiseAll("pending", writeState')
              /\ pc' = "awaitWrites"
              /\ UNCHANGED <<outcome, result>>
  /\ UNCHANGED <<files, newTags, disk, reads, rawTags, resolveOrder, readAll,
                 readErr, getTagsState, linkedFiles, writeErr, errLog>>
  /\ UNCHANGED previous

\* The external tool completes write j.
WriteResolve(j) ==
  /\ j \in DOMAIN writeState
  /\ writeState[j] = "pending"
  /\ writeState' = [writeState EXCEPT ![j] = "resolved"]
  /\ disk' = ApplyWrite(disk, writes[j])
  /\ writeAll' = PromiseAll(writeAll, writeState')
  /\ UNCHANGED <<pc, files, newTags, reads, rawTags, resolveOrder, readAll,
                 readErr, getTagsState, linkedFiles, writes, writeErr, modified,
                 errLog, outcome, result>>
  /\ UNCHANGED previous

\* A failed write that is tried again: a new request for the same file is
\* issued on failure.
WriteReject_retry(j) ==
  /\ j \in DOMAIN writeState
  /\ writeState[j] = "pending"
  /\ writes' = Append(writes, writes[j])
  /\ writeState' = Append([writeState EXCEPT ![j] = "rejected"], "pending")
  /\ UNCHANGED <<pc, files, newTags, disk, reads, rawTags, resolveOrder, readAll,
                 readErr, getTagsState, linkedFiles, writeAll, writeErr, modified,
                 errLog, outcome, result>>
  /\ UNCHANGED previous

\* The external tool fails write j.
WriteReject(j) ==
  /\ j \in DOMAIN writeState
  /\ writeState[j] = "pending"
  /\ writeState' = [writeState EXCEPT ![j] = "rejected"]
  /\ writeAll' = PromiseAll(writeAll, writeState')
  /\ writeErr' = IF writeAll = "pending" THEN j ELSE writeErr
  /\ UNCHANGED <<pc, files, newTags, disk, reads, rawTags, resolveOrder, readAll,
                 readErr, getTagsState, linkedFiles, writes, modified, errLog,
                 outcome, result>>
  /\ UNCHANGED previous

\* writeImageTags whose catch handler throws the error again.
writeImageTags_return_rethrow ==
  /\ pc = "awaitWrites"
  /\ writeAll # "pending"
  /\ errLog' = IF writeAll = "rejected"
               THEN Append(errLog, <<"writeError", writeErr>>)
               ELSE errLog
  /\ pc' = "done"
  /\ outcome' = IF writeAll = "rejected" THEN "rejected" ELSE "returned"
  /\ result' = IF writeAll = "rejected" THEN <<"writeError", writeErr>> ELSE modified
  /\ UNCHANGED <<files, newTags, disk, reads, rawTags, resolveOrder, readAll,
                 readErr, getTagsState, linkedFiles, writes, writeState,
                 writeAll, writeErr, modified>>
  /\ UNCHANGED previous

\* writeImageTags that stops waiting for the writes after a timeout.
writeImageTags_return_timeout ==
  /\ pc = "awaitWrites"
  /\ errLog' = IF writeAll = "rejected"
               THEN Append(errLog, <<"writeError", writeErr>>)
               ELSE errLog
  /\ pc' = "done"
  /\ outcome' = "returned"
  /\ result' = modified
  /\ UNCHANGED <<files, newTags, disk, reads, rawTags, resolveOrder, readAll,
                 readErr, getTagsState, linkedFiles, writes, writeState,
                 writeAll, writeErr, modified>>
  /\ UNCHANGED previous

\* writeImageTags resumes after await Promise.all(promises).catch(...): a
\* rejection is logged by the catch handler, and modified is returned.
writeImageTags_return ==
  /\ pc = "awaitWrites"
  /\ writeAll # "pending"
  /\ errLog' = IF writeAll = "rejected"
               THEN Append(errLog, <<"writeError", writeErr>>)
               ELSE errLog
  /\ pc' = "done"
  /\ outcome' = "returned"
  /\ result' = modified
  /\ UNCHANGED <<files, newTags, disk, reads, rawTags, resolveOrder, readAll,
                 readErr, getTagsState, linkedFiles, writes, writeState,
                 writeAll, writeErr, modified>>
  /\ UNCHANGED previous

Next ==
  \/ \E fs \in FileLists, nt \in NewTagChoices : writeImageTags_call(fs, nt)
  \/ \E i \in 1..(MaxFiles + 1) : ReadResolve(i)
  \/ \E i \in 1..(MaxFiles + 1) : ReadReject(i)
  \/ getTags_resume
  \/ writeImageTags_resume
  \/ \E j \in 1..(MaxFiles + 1) : WriteResolve(j)
  \/ \E j \in 1..(MaxFiles + 1) : WriteReject(j)
  \/ writeImageTags_return

Spec == Init /\ [][Next]_vars

\* The caller calls writeImageTags again with the same arguments, after a call
\* that returned and whose writes all succeeded.
writeImageTags_repeat ==
  /\ pc = "done"
  /\ previous = <<>>
  /\ outcome = "returned"
  /\ \A j \in DOMAIN writeState : writeState[j] = "resolved"
  /\ previous' = <<[warnings |-> result, writes |-> Len(writes)]>>
  /\ reads' = [i \in DOMAIN files |-> "pending"]
  /\ rawTags' = [i \in DOMAIN files |-> EmptyObject]
  /\ resolveOrder' = <<>>
  /\ readAll' = PromiseAll("pending", reads')
  /\ readErr' = 0
  /\ getTagsState' = "none"
  /\ linkedFiles' = <<>>
  /\ writes' = <<>>
  /\ writeState' = <<>>
  /\ writeAll' = "none"
  /\ writeErr' = 0
  /\ modified' = <<>>
  /\ outcome' = "none"
  /\ result' = <<>>
  /\ pc' = "awaitReads"
  /\ UNCHANGED <<files, newTags, disk, errLog>>

\* The input lists of a call that is repeated: the files with ordinary names.
RepeatFileLists ==
  UNION { [1..n -> {p \in Paths : ~IsArrayIndex(Basename(p))}] : n \in 0..MaxFiles }

NextTwoCalls ==
  \/ \E fs \in RepeatFileLists, nt \in NewTagChoices : writeImageTags_call(fs, nt)
  \/ \E i \in 1..(MaxFiles + 1) : ReadResolve(i)
  \/ \E i \in 1..(MaxFiles + 1) : ReadReject(i)
  \/ getTags_resume
  \/ writeImageTags_resume
  \/ \E j \in 1..(MaxFiles + 1) : WriteResolve(j)
  \/ \E j \in 1..(MaxFiles + 1) : WriteReject(j)
  \/ writeImageTags_return
  \/ writeImageTags_repeat

\* Two calls in a row on the same files.
SpecTwoCalls == Init /\ [][NextTwoCalls]_vars

\* The continuations of a call run once their promise has settled.
FairSpec ==
  Spec /\ WF_vars(getTags_resume) /\ WF_vars(writeImageTags_resume)
       /\ WF_vars(writeImageTags_return)

----------------------------------------------------------------------------
\* Properties

SomeRead(st) == \E i \in DOMAIN reads : reads[i] = st
SomeWrite(st) == \E j \in DOMAIN writeState : writeState[j] = st

\* C1: a write request exists only when every read of the batch has
\* resolved: no write is issued while a read is pending or after one failed.
C1_ReadsPrecedeWrites ==
  writes # <<>> =>
    /\ Len(reads) = Len(files)
    /\ \A i \in DOMAIN reads : reads[i] = "resolved"

\* Writes were issued for two files whose reads resolved in reverse order.
C1_Witness ==
  /\ Len(writes) = 2
  /\ resolveOrder = <<2, 1>>

\* C2: once a read of the batch has failed, getTags does not fulfil and
\* leaves no mapping, no write is issued and no warning recorded; when getTags
\* settles it is rejected, and the finished call has failed with the error of
\* a failed read.
C2_ReadFailureAborts ==
  SomeRead("rejected") =>
    /\ getTagsState \in {"none", "rejected"}
    /\ linkedFiles = <<>>
    /\ writes = <<>>
    /\ modified = <<>>
    /\ outcome # "returned"
    /\ pc \in {"gotTags", "done"} => getTagsState = "rejected"
    /\ pc = "done" =>
         /\ outcome = "rejected"
         /\ result[1] = "readError"
         /\ reads[result[2]] = "rejected"

\* The call has failed although another read of the batch resolved.
C2_Witness ==
  /\ pc = "done"
  /\ outcome = "rejected"
  /\ SomeRead("rejected")
  /\ SomeRead("resolved")

\* C3: when all reads succeeded the call never fails, whatever the writes
\* do; it returns the warnings accumulated by the diff, which are those the
\* loop computes from the mapping and newTags alone.
C3_WriteFailureSwallowed ==
  getTagsState = "fulfilled" =>
    /\ outcome # "rejected"
    /\ pc = "done" =>
         /\ outcome = "returned"
         /\ result = modified
         /\ result = Loop(ObjectEntries(linkedFiles), Len(linkedFiles), newTags).modified

\* The call returned warnings after one write failed and another succeeded.
C3_Witness ==
  /\ pc = "done"
  /\ outcome = "returned"
  /\ result # <<>>
  /\ SomeWrite("rejected")
  /\ SomeWrite("resolved")

\* C4: when the call returns, no write it issued is still pending.
C4_NoPendingWriteAtReturn ==
  (pc = "done" /\ outcome = "returned") => ~SomeWrite("pending")

\* Raw tag read for each field.
RawName == [f \in Fields |->
              CASE f = "creator" -> "Creator"
                [] f = "license" -> "License"
                [] OTHER         -> "Rights"]

\* The pairs of a mapping entry and a targeted field whose current value
\* differs from the desired value.
DifferingPairs ==
  {pr \in (DOMAIN linkedFiles) \X Fields :
     /\ pr[2] \in DOMAIN newTags
     /\ linkedFiles[pr[1]].value[pr[2]] # newTags[pr[2]]}

\* C5: after the diff, the warnings are exactly one per pair of a mapping
\* entry and a targeted field whose current value differs from the desired
\* value, each naming the entry's base name, the field and both values; a
\* targeted field with equal values gets none.
C5_WarningsAreDifferences ==
  (pc \in {"awaitWrites", "done"} /\ getTagsState = "fulfilled") =>
    /\ Len(modified) = Cardinality(DifferingPairs)
    /\ {modified[k] : k \in DOMAIN modified} =
         {[file     |-> linkedFiles[pr[1]].key,
           field    |-> pr[2],
           existing |-> ToStr(linkedFiles[pr[1]].value[pr[2]]),
           with     |-> ToStr(newTags[pr[2]])] : pr \in DifferingPairs}

\* The diff ran on an entry with a targeted field that differs from a defined
\* current value, one that differs from an undefined current value and one
\* that equals the current value.
C5_Witness ==
  /\ pc = "awaitWrites"
  /\ \E k \in DOMAIN linkedFiles :
       LET cur == linkedFiles[k].value
       IN  /\ Fields \subseteq DOMAIN newTags
           /\ cur.creator \notin {Undefined, newTags.creator}
           /\ cur.license = newTags.license
           /\ cur.rights = Undefined

\* C6: every write request carries at least one non-empty value.
C6_PayloadHasValue ==
  \A j \in DOMAIN writes :
    \E x \in DOMAIN writes[j].tags : writes[j].tags[x] \notin {Undefined, ""}

\* The value read for field f of input file i.
CurrentValue(i, f) == Get(JSONRoundTrip(rawTags[i]), RawName[f])

\* Some field is targeted and every targeted desired value equals the current
\* value of every input file.
AllTargetedEqual ==
  /\ (DOMAIN newTags) \cap Fields # {}
  /\ \A i \in DOMAIN files : \A f \in DOMAIN newTags : CurrentValue(i, f) = newTags[f]

\* The distinct base names of the input list.
BaseNames == {Basename(files[i]) : i \in DOMAIN files}

\* C7 as stated: with every targeted value already current, no warning and
\* as many writes as input files.
C7_OneWritePerInputFile ==
  (pc \in {"awaitWrites", "done"} /\ getTagsState = "fulfilled" /\ AllTargetedEqual) =>
    /\ modified = <<>>
    /\ Len(writes) = Len(files)

\* C7: with every targeted value already current, no warning is recorded
\* and one write is issued per distinct base name of the input list.
C7_OneWritePerBaseName ==
  (pc \in {"awaitWrites", "done"} /\ getTagsState = "fulfilled" /\ AllTargetedEqual) =>
    /\ modified = <<>>
    /\ Len(writes) = Cardinality(BaseNames)

\* Two input files share a base name and already hold every targeted value:
\* one write, no warning.
C7_Witness ==
  /\ pc = "awaitWrites"
  /\ AllTargetedEqual
  /\ Len(files) = 2
  /\ Cardinality(BaseNames) = 1
  /\ files[1] # files[2]
  /\ Len(writes) = 1

\* Position of input index i in the order of resolution.
ResolvedAt(i) == CHOOSE k \in DOMAIN resolveOrder : resolveOrder[k] = i

\* C8 as stated: when the read of a later input file resolved before the read
\* of an earlier one, the later file's warnings precede the earlier file's.
C8_ResolutionOrder ==
  (pc = "done" /\ outcome = "returned") =>
    \A i, j \in DOMAIN files :
      (i < j /\ Basename(files[i]) # Basename(files[j]) /\ ResolvedAt(j) < ResolvedAt(i)) =>
        \A p, q \in DOMAIN result :
          (result[p].file = Basename(files[j]) /\ result[q].file = Basename(files[i])) => p < q

\* First position of base name b in the input list.
FirstOccurrence(b) ==
  CHOOSE i \in DOMAIN files :
    /\ Basename(files[i]) = b
    /\ \A k \in 1..(i - 1) : Basename(files[k]) # b

\* Whether base name a is enumerated before base name b: array indexes first,
\* in ascending order, then the other names by first occurrence in the input.
EnumeratedBefore(a, b) ==
  IF a[1] \in DOMAIN ArrayIndexValue
  THEN b[1] \in DOMAIN ArrayIndexValue => ArrayIndexValue[a[1]] < ArrayIndexValue[b[1]]
  ELSE b[1] \notin DOMAIN ArrayIndexValue /\ FirstOccurrence(a) < FirstOccurrence(b)

\* C8: warnings and writes follow the enumeration order of the mapping,
\* which the input list fixes whatever the order in which the reads resolved.
C8_InputOrder ==
  (pc \in {"awaitWrites", "done"} /\ getTagsState = "fulfilled") =>
    /\ \A p, q \in DOMAIN modified :
         p < q => \/ modified[p].file = modified[q].file
                  \/ EnumeratedBefore(modified[p].file, modified[q].file)
    /\ \A p, q \in DOMAIN writes :
         p < q => EnumeratedBefore(Basename(writes[p].file), Basename(writes[q].file))

\* The second input file was read first, and the returned warnings still
\* name the first input file before the second.
C8_Witness ==
  /\ pc = "done"
  /\ outcome = "returned"
  /\ resolveOrder = <<2, 1>>
  /\ files[1] = <<"x", "a.jpg">>
  /\ files[2] = <<"x", "b.jpg">>
  /\ \E p, q \in DOMAIN result :
       /\ p < q
       /\ result[p].file = <<"a.jpg">>
       /\ result[q].file = <<"b.jpg">>

LastOccurrence(b) ==
  CHOOSE i \in DOMAIN files :
    /\ Basename(files[i]) = b
    /\ \A k \in (i + 1)..Len(files) : Basename(files[k]) # b

\* C10: the mapping of a successful getTags has exactly one entry per
\* distinct base name of the input; each entry's fileName is its key and its
\* sourceFile and tags are those read for the last input file of that name.
C10_OneEntryPerBaseName ==
  getTagsState = "fulfilled" =>
    /\ Len(linkedFiles) = Cardinality(BaseNames)
    /\ {linkedFiles[k].key : k \in DOMAIN linkedFiles} = BaseNames
    /\ \A k \in DOMAIN linkedFiles :
         LET e    == linkedFiles[k].value
             last == LastOccurrence(linkedFiles[k].key)
         IN  /\ e.fileName = linkedFiles[k].key
             /\ e.sourceFile = files[last]
             /\ e.creator = CurrentValue(last, "creator")
             /\ e.license = CurrentValue(last, "license")
             /\ e.rights = CurrentValue(last, "rights")

\* Two files of one base name and different tags were read, the last one
\* first, and getTags returned.
C10_Witness ==
  /\ getTagsState = "fulfilled"
  /\ files = << <<"x", "a.jpg">>, <<"y", "a.jpg">> >>
  /\ resolveOrder = <<2, 1>>

\* The value the tool stores for a written value: none for an empty one.
Stored(v) == IF v \in {Undefined, ""} THEN Undefined ELSE v

\* C11: once a write of the batch has failed, a write has still been issued
\* for every entry of the mapping, each other write can still complete and a
\* completed one has taken effect; the call does not fail and returns the
\* full list of warnings.
C11_WriteFailureIsolated ==
  SomeWrite("rejected") =>
    /\ Len(writes) = Len(linkedFiles)
    /\ {writes[j].file : j \in DOMAIN writes} =
         {linkedFiles[k].value.sourceFile : k \in DOMAIN linkedFiles}
    /\ \A j \in DOMAIN writeState :
         /\ writeState[j] = "pending" => ENABLED WriteResolve(j)
         /\ writeState[j] = "resolved" =>
              \A x \in DOMAIN writes[j].tags :
                Get(disk[writes[j].file], XmpTag[x]) = Stored(writes[j].tags[x])
    /\ outcome # "rejected"
    /\ pc = "done" =>
         /\ outcome = "returned"
         /\ result = modified
         /\ Len(result) = Cardinality(DifferingPairs)

\* The first write failed, the call returned its warnings, and the other
\* write has completed and changed the file.
C11_Witness ==
  /\ pc = "done"
  /\ outcome = "returned"
  /\ result # <<>>
  /\ writeState = <<"rejected", "resolved">>
  /\ disk[writes[2].file] # InitialDisk[writes[2].file]
  /\ disk[writes[1].file] = InitialDisk[writes[1].file]

\* The fields that are keys of newTags.
Targeted == (DOMAIN newTags) \cap Fields

\* C12: every write payload has exactly the external tag names of the
\* targeted fields, each with the desired value; a field that is not targeted
\* is named by no warning and keeps its stored value in every file.
C12_OnlyTargetedFields ==
  /\ \A j \in DOMAIN writes :
       /\ DOMAIN writes[j].tags = {TagName[f] : f \in Targeted}
       /\ \A f \in Targeted : writes[j].tags[TagName[f]] = newTags[f]
  /\ \A k \in DOMAIN modified : modified[k].field \in Targeted
  /\ \A p \in Paths : \A f \in Fields \ Targeted :
       Get(disk[p], RawName[f]) = Get(InitialDisk[p], RawName[f])

\* Only the license was targeted on a file that has a creator and no license:
\* the write completed, the license is stored and warned about, the creator
\* is kept.
C12_Witness ==
  /\ pc = "done"
  /\ Targeted = {"license"}
  /\ files = << <<"x", "b.jpg">> >>
  /\ writeState = <<"resolved">>
  /\ Len(modified) = 1
  /\ disk[<<"x", "b.jpg">>] = [Creator |-> "Alice", License |-> "CC", Rights |-> "R"]

\* C13: when newTags has none of the keys creator, license, rights, the
\* call reads every input file, issues no write and records no warning, and
\* returns the empty list once the reads have succeeded.
C13_NoKeysNoWrites ==
  (pc # "idle" /\ Targeted = {}) =>
    /\ Len(reads) = Len(files)
    /\ writes = <<>>
    /\ modified = <<>>
    /\ disk = InitialDisk
    /\ (pc = "done" /\ getTagsState = "fulfilled") =>
         (outcome = "returned" /\ result = <<>>)

\* Two files with different tags were read for a newTags without keys, and
\* the call returned.
C13_Witness ==
  /\ pc = "done"
  /\ outcome = "returned"
  /\ Targeted = {}
  /\ Len(linkedFiles) = 2
  /\ linkedFiles[1].value.creator # linkedFiles[2].value.creator

\* C14: the writes of a call target pairwise distinct files, while one read
\* is issued per element of the input list, repeated files included.
C14_OneWritePerFile ==
  /\ \A j, k \in DOMAIN writes : j # k => writes[j].file # writes[k].file
  /\ Len(writeState) = Len(writes)
  /\ pc # "idle" => Len(reads) = Len(files)

\* The same file was named twice and read twice, and one write was issued.
C14_Witness ==
  /\ Len(files) = 2
  /\ files[1] = files[2]
  /\ reads = <<"resolved", "resolved">>
  /\ Len(writes) = 1

\* C15: a call issues exactly one read per element of the input list and at
\* most one write per entry of the mapping, and no step taken after a read or
\* a write has failed issues a further request.
C15_NoRetry ==
  [][ /\ pc' # "idle" =>
           /\ Len(reads') = Len(files')
           /\ Len(writes') <= Len(linkedFiles')
           /\ Len(writeState') = Len(writes')
      /\ (SomeRead("rejected") \/ SomeWrite("rejected")) =>
           /\ Len(reads') = Len(reads)
           /\ writes' = writes
           /\ Len(writeState') = Len(writeState) ]_vars

\* The call is over after both of its writes failed, with the two reads
\* and the two writes it first issued and no other request.
C15_Witness ==
  /\ pc = "done"
  /\ Len(files) = 2
  /\ Len(reads) = 2
  /\ Len(writes) = 2
  /\ writeState = <<"rejected", "rejected">>

\* The input paths have pairwise distinct base names.
DistinctBaseNames == Cardinality(BaseNames) = Len(files)

\* Every desired value is a non-empty string.
NonEmptyDesired == \A f \in Targeted : newTags[f] \notin {Undefined, ""}

\* C16: with pairwise distinct base names and non-empty desired values,
\* the call that follows a call whose writes all succeeded, on the same files
\* and desired tags, records no warning, issues as many writes as the first
\* call and returns the empty list.
C16_SecondCallConverges ==
  (/\ previous # <<>>
   /\ pc \in {"awaitWrites", "done"}
   /\ getTagsState = "fulfilled"
   /\ DistinctBaseNames
   /\ NonEmptyDesired) =>
    /\ modified = <<>>
    /\ Len(writes) = previous[1].writes
    /\ pc = "done" => (outcome = "returned" /\ result = <<>>)

\* A first call warned about two files and wrote them; the second call
\* returned no warning after issuing two writes again.
C16_Witness ==
  /\ previous # <<>>
  /\ Len(previous[1].warnings) >= 2
  /\ previous[1].writes = 2
  /\ DistinctBaseNames
  /\ NonEmptyDesired
  /\ pc = "done"
  /\ outcome = "returned"
  /\ result = <<>>
  /\ Len(writes) = 2

====
